---- MODULE Spec2Model ----
(***************************************************************************)
(* permacache: a RAM cache of payloads keyed by content hash, with a       *)
(* bounded index of path names and an optional long term store             *)
(* (src/index.js, class Cache).                                            *)
(*                                                                         *)
(* A step of the model is one uninterrupted run of JavaScript: a call up   *)
(* to its first await, or the continuation of an await.  The long term     *)
(* store answers a read or a write in a later step, with success or with   *)
(* failure.                                                                *)
(***************************************************************************)
EXTENDS Integers, Sequences, FiniteSets, Bags, TLC

(***************************************************************************)
(* Bounds of the model.                                                    *)
(***************************************************************************)
\* the clock (Date.getTime) advances at most this far
MaxTime == 2
\* the insertion counter _pathIndex is not pushed beyond this value
MaxPathIndex == 4
\* durable writes in flight at one moment
MaxWrites == 2
\* the same, where the writes of two puts race
MaxRacingWrites == 3

(***************************************************************************)
(* Inputs.                                                                 *)
(***************************************************************************)
\* payloads (Buffers) the callers put
Data == {"d1", "d2", "d3"}

\* data.length
Length(d) ==
  CASE d = "d1" -> 4000
    [] d = "d2" -> 6000
    [] d = "d3" -> 12000
    [] d = "d4" -> 150000

\* payloads of any length: d4 is longer than the default file limit
AnyData == Data \cup {"d4"}

\* path names the callers use
Paths == {"a", "ab", "b"}

\* the paths argument of put: up to two distinct names, in order
PathLists ==
  {<<>>} \cup {<<p>> : p \in Paths}
         \cup {pq \in Paths \X Paths : pq[1] # pq[2]}

\* values given to the fileLimit option and setter
FileLimits == {5000, 12000}
\* values given to the totalLimit option and setter
TotalLimits == {10000, 16000}
\* values given to the pathLimit option
PathLimits == {2}

(***************************************************************************)
(* Hashes.  crypto.createHash('sha256').update(data).digest('hex') is a    *)
(* lowercase hex string; the model keeps one byte of the digest, as the    *)
(* sequence of its two hex digits (0..15).  Distinct payloads of the model *)
(* have distinct digests.                                                  *)
(***************************************************************************)
Hash(d) ==
  CASE d = "d1" -> <<10, 1>>
    [] d = "d2" -> <<0, 11>>
    [] d = "d3" -> <<15, 15>>
    [] d = "d4" -> <<3, 12>>

Hashes == {Hash(d) : d \in Data}

\* Buffer.from(hex, 'hex'): two hex digits make one byte
RECURSIVE HexToBytes(_)
HexToBytes(hex) ==
  IF Len(hex) < 2 THEN <<>>
  ELSE <<hex[1] * 16 + hex[2]>> \o HexToBytes(SubSeq(hex, 3, Len(hex)))

\* buffer.toString('hex'): one byte makes two hex digits
RECURSIVE BytesToHex(_)
BytesToHex(bytes) ==
  IF bytes = <<>> THEN <<>>
  ELSE <<bytes[1] \div 16, bytes[1] % 16>> \o BytesToHex(Tail(bytes))

(***************************************************************************)
(* State.                                                                  *)
(***************************************************************************)
VARIABLES
  fileLimit,    \* this._fileLimit
  totalLimit,   \* this._totalLimit
  pathLimit,    \* this._pathLimit
  longterm,     \* this._longterm !== false
  pathIndex,    \* this._pathIndex
  current,      \* this._current
  caches,       \* this._caches: entries [hash, time, data] in key insertion order
  paths,        \* this._paths: path -> [index, hash]
  now,          \* (new Date()).getTime()
  storedPaths,  \* long term store: path -> stored bytes
  storedCaches, \* long term store: hash -> stored payload
  marker,       \* long term store: the clear file (object) is there
  backend,      \* "fs": longterm is a folder, "s3": a bucket
  watcher,      \* where the clear checking loop stands ("off": not started)
  writes,       \* bag of durable writes in flight
  calls,        \* calls awaiting the long term store
  last          \* what the last step returned to its caller

ram == <<pathIndex, current, caches, paths>>
limits == <<fileLimit, totalLimit, pathLimit, longterm, backend, watcher>>
store == <<storedPaths, storedCaches, marker>>
vars == <<fileLimit, totalLimit, pathLimit, longterm, pathIndex, current,
          caches, paths, now, storedPaths, storedCaches, marker, backend,
          watcher, writes, calls, last>>

(***************************************************************************)
(* The RAM tier.                                                           *)
(***************************************************************************)
ScoreStep == 10000

\* Math.ceil(size / ScoreStep)
CeilDiv(size, step) == (size + step - 1) \div step

\* the default this._scoreFunc: largest values get removed first
ScoreFunc(age, size) == age * CeilDiv(size, ScoreStep)

\* the position of hash among the entries, 0 when absent
CacheIndex(cs, hash) ==
  IF \E i \in 1..Len(cs) : cs[i].hash = hash
  THEN CHOOSE i \in 1..Len(cs) : cs[i].hash = hash
  ELSE 0

InCaches(cs, hash) == CacheIndex(cs, hash) # 0

\* the bytes held by the entries cs
RECURSIVE ResidentBytes(_)
ResidentBytes(cs) ==
  IF cs = <<>> THEN 0 ELSE Length(Head(cs).data) + ResidentBytes(Tail(cs))

RemoveAt(s, i) == SubSeq(s, 1, i - 1) \o SubSeq(s, i + 1, Len(s))

\* Array.prototype.sort with (a, b) => a[0] - b[0] is stable: an element goes
\* behind every element whose score is not larger
InsertSorted(sorted, e) ==
  LET k == Cardinality({i \in 1..Len(sorted) : sorted[i].score <= e.score})
  IN SubSeq(sorted, 1, k) \o <<e>> \o SubSeq(sorted, k + 1, Len(sorted))

\* the array "sorted" of _freeSpaceInRAM: [score, hash] of every entry, in key
\* order, then sorted with the highest scores at the end
RECURSIVE SortedScores(_, _)
SortedScores(cs, t) ==
  IF cs = <<>> THEN <<>>
  ELSE LET n == Len(cs)
           e == [score |-> ScoreFunc(t - cs[n].time, Length(cs[n].data)),
                 hash |-> cs[n].hash]
       IN InsertSorted(SortedScores(SubSeq(cs, 1, n - 1), t), e)

\* the while loop of _freeSpaceInRAM with sorted.shift() for sorted.pop(): the
\* lowest score goes first
RECURSIVE FreeLoopShift(_, _, _, _, _)
FreeLoopShift(sorted, cs, cur, size, tl) ==
  IF cur + size <= tl
  THEN [caches |-> cs, current |-> cur, threw |-> FALSE]
  ELSE IF sorted = <<>>
  THEN [caches |-> cs, current |-> cur, threw |-> TRUE]
  ELSE LET hash == sorted[1].hash
           i == CacheIndex(cs, hash)
           removalSize == Length(cs[i].data)
       IN FreeLoopShift(Tail(sorted), RemoveAt(cs, i),
                        cur - removalSize, size, tl)

\* the while loop of _freeSpaceInRAM deleting the entry of the highest score
\* without taking its size off this._current
RECURSIVE FreeLoopForgets(_, _, _, _, _)
FreeLoopForgets(sorted, cs, cur, size, tl) ==
  IF ResidentBytes(cs) + size <= tl
  THEN [caches |-> cs, current |-> cur, threw |-> FALSE]
  ELSE IF sorted = <<>>
  THEN [caches |-> cs, current |-> cur, threw |-> TRUE]
  ELSE LET hash == sorted[Len(sorted)].hash
           i == CacheIndex(cs, hash)
       IN FreeLoopForgets(SubSeq(sorted, 1, Len(sorted) - 1), RemoveAt(cs, i),
                          cur, size, tl)

\* the while loop of _freeSpaceInRAM; sorted.pop() of an empty array is
\* undefined and destructuring it throws a TypeError
RECURSIVE FreeLoop(_, _, _, _, _)
FreeLoop(sorted, cs, cur, size, tl) ==
  IF cur + size <= tl
  THEN [caches |-> cs, current |-> cur, threw |-> FALSE]
  ELSE IF sorted = <<>>
  THEN [caches |-> cs, current |-> cur, threw |-> TRUE]
  ELSE LET hash == sorted[Len(sorted)].hash
           i == CacheIndex(cs, hash)
           removalSize == Length(cs[i].data)
       IN FreeLoop(SubSeq(sorted, 1, Len(sorted) - 1), RemoveAt(cs, i),
                   cur - removalSize, size, tl)

\* _freeSpaceInRAM with "if" for "while": at most one entry is removed
FreeSpaceOnce(cs, cur, size, t, tl) ==
  IF cur + size > tl /\ cs # <<>>
  THEN LET sorted == SortedScores(cs, t)
           i == CacheIndex(cs, sorted[Len(sorted)].hash)
       IN [caches |-> RemoveAt(cs, i), current |-> cur - Length(cs[i].data),
           threw |-> FALSE]
  ELSE [caches |-> cs, current |-> cur, threw |-> FALSE]

\* _freeSpaceInRAM that empties RAM as soon as the size does not fit
FreeSpaceEager(cs, cur, size, t, tl) ==
  IF cur + size > tl
  THEN [caches |-> <<>>, current |-> 0, threw |-> size > tl]
  ELSE [caches |-> cs, current |-> cur, threw |-> FALSE]

\* _freeSpaceInRAM(size, now)
FreeSpaceInRAM(cs, cur, size, t, tl) ==
  IF cur + size > tl
  THEN FreeLoop(SortedScores(cs, t), cs, cur, size, tl)
  ELSE [caches |-> cs, current |-> cur, threw |-> FALSE]

\* _storeCacheInRAM without the check of line 288 against the file limit
StoreCacheAnySize(cs, cur, hash, data, t, fl, tl) ==
  IF InCaches(cs, hash)
  THEN [caches |-> [cs EXCEPT ![CacheIndex(cs, hash)].time = t],
        current |-> cur, inRAM |-> TRUE, threw |-> FALSE]
  ELSE LET freed == FreeSpaceInRAM(cs, cur, Length(data), t, tl)
       IN IF freed.threw
          THEN [caches |-> freed.caches, current |-> freed.current,
                inRAM |-> FALSE, threw |-> TRUE]
          ELSE [caches |-> Append(freed.caches,
                                  [hash |-> hash, time |-> t, data |-> data]),
                current |-> freed.current + Length(data),
                inRAM |-> TRUE, threw |-> FALSE]

\* _storeCacheInRAM that counts the size of a payload it already holds again
StoreCacheRecount(cs, cur, hash, data, t, fl, tl) ==
  IF InCaches(cs, hash)
  THEN [caches |-> [cs EXCEPT ![CacheIndex(cs, hash)].time = t],
        current |-> cur + Length(data), inRAM |-> TRUE, threw |-> FALSE]
  ELSE IF Length(data) > fl
  THEN [caches |-> cs, current |-> cur, inRAM |-> FALSE, threw |-> FALSE]
  ELSE LET freed == FreeSpaceInRAM(cs, cur, Length(data), t, tl)
       IN IF freed.threw
          THEN [caches |-> freed.caches, current |-> freed.current,
                inRAM |-> FALSE, threw |-> TRUE]
          ELSE [caches |-> Append(freed.caches,
                                  [hash |-> hash, time |-> t, data |-> data]),
                current |-> freed.current + Length(data),
                inRAM |-> TRUE, threw |-> FALSE]

\* _storeCacheInRAM(hash, data): inRAM is the value returned
StoreCacheInRAM(cs, cur, hash, data, t, fl, tl) ==
  IF InCaches(cs, hash)
  THEN [caches |-> [cs EXCEPT ![CacheIndex(cs, hash)].time = t],
        current |-> cur, inRAM |-> TRUE, threw |-> FALSE]
  ELSE IF Length(data) > fl
  THEN [caches |-> cs, current |-> cur, inRAM |-> FALSE, threw |-> FALSE]
  ELSE LET freed == FreeSpaceInRAM(cs, cur, Length(data), t, tl)
       IN IF freed.threw
          THEN [caches |-> freed.caches, current |-> freed.current,
                inRAM |-> FALSE, threw |-> TRUE]
          ELSE [caches |-> Append(freed.caches,
                                  [hash |-> hash, time |-> t, data |-> data]),
                current |-> freed.current + Length(data),
                inRAM |-> TRUE, threw |-> FALSE]

\* _storePathInRAM whose removeIndex is one too high
StorePathOffByOne(ps, idx, pl, path, hash) ==
  IF path \in DOMAIN ps
  THEN [paths |-> [ps EXCEPT ![path].hash = hash], pathIndex |-> idx]
  ELSE LET added == [q \in DOMAIN ps \cup {path} |->
                       IF q = path THEN [index |-> idx, hash |-> hash]
                       ELSE ps[q]]
           next == idx + 1
           removeIndex == next - pl
           gone == {q \in DOMAIN added : added[q].index = removeIndex}
       IN IF next > pl
          THEN [paths |-> [q \in DOMAIN added \ gone |-> added[q]],
                pathIndex |-> next]
          ELSE [paths |-> added, pathIndex |-> next]

\* _storePathInRAM giving an existing path a fresh insertion index
StorePathRenewed(ps, idx, pl, path, hash) ==
  LET rest == [q \in DOMAIN ps \ {path} |-> ps[q]]
      added == [q \in DOMAIN ps \cup {path} |->
                  IF q = path THEN [index |-> idx, hash |-> hash]
                  ELSE ps[q]]
      next == idx + 1
      removeIndex == next - pl - 1
      gone == {q \in DOMAIN rest : rest[q].index = removeIndex}
  IN IF next > pl
     THEN [paths |-> [q \in DOMAIN added \ gone |-> added[q]],
           pathIndex |-> next]
     ELSE [paths |-> added, pathIndex |-> next]

\* _storePathInRAM(path, hash)
StorePathInRAM(ps, idx, pl, path, hash) ==
  IF path \in DOMAIN ps
  THEN [paths |-> [ps EXCEPT ![path].hash = hash], pathIndex |-> idx]
  ELSE LET added == [q \in DOMAIN ps \cup {path} |->
                       IF q = path THEN [index |-> idx, hash |-> hash]
                       ELSE ps[q]]
           next == idx + 1
           removeIndex == next - pl - 1
           gone == {q \in DOMAIN added : added[q].index = removeIndex}
       IN IF next > pl
          THEN [paths |-> [q \in DOMAIN added \ gone |-> added[q]],
                pathIndex |-> next]
          ELSE [paths |-> added, pathIndex |-> next]

\* line 326: the path is stored unless it already maps to hash
PathIsSet(ps, path, hash) == path \in DOMAIN ps /\ ps[path].hash = hash

\* the loop of put leaving after its first path
PutPathsFirstOnly(pseq, ps, idx, pl, hash) ==
  IF pseq = <<>>
  THEN [paths |-> ps, pathIndex |-> idx, changed |-> {}]
  ELSE LET p == Head(pseq)
           hit == PathIsSet(ps, p, hash)
           st == IF hit THEN [paths |-> ps, pathIndex |-> idx]
                 ELSE StorePathInRAM(ps, idx, pl, p, hash)
       IN [paths |-> st.paths, pathIndex |-> st.pathIndex,
           changed |-> IF hit THEN {} ELSE {p}]

\* the loop of put over its paths: a path that is stored is also written to the
\* long term store (changed)
RECURSIVE PutPaths(_, _, _, _, _)
PutPaths(pseq, ps, idx, pl, hash) ==
  IF pseq = <<>>
  THEN [paths |-> ps, pathIndex |-> idx, changed |-> {}]
  ELSE LET p == Head(pseq)
           hit == PathIsSet(ps, p, hash)
           st == IF hit THEN [paths |-> ps, pathIndex |-> idx]
                 ELSE StorePathInRAM(ps, idx, pl, p, hash)
           rest == PutPaths(Tail(pseq), st.paths, st.pathIndex, pl, hash)
       IN [rest EXCEPT !.changed = IF hit THEN @ ELSE @ \cup {p}]

(***************************************************************************)
(* Calls and durable writes in flight.                                     *)
(***************************************************************************)
EmptyMap == [x \in {} |-> 0]
NoData == ""
NoPath == ""
NoHash == <<>>

Idle == [op |-> "idle"]
Nothing == [op |-> "none"]

Slots == DOMAIN calls
IsIdle(c) == calls[c].op = "idle"
HasFreeSlot == \E c \in Slots : IsIdle(c)
FreeSlot == CHOOSE c \in Slots : IsIdle(c) /\ \A b \in 1..(c - 1) : ~IsIdle(b)

\* this._longterm.writePath(path, hash), awaited by call c (0: by nobody)
PathWrite(c, path, hash) ==
  [call |-> c, op |-> "writePath", path |-> path, hash |-> hash, data |-> NoData]

\* this._longterm.writeCache(hash, data), awaited by call c (0: by nobody)
CacheWrite(c, hash, data) ==
  [call |-> c, op |-> "writeCache", path |-> NoPath, hash |-> hash, data |-> data]

InFlight == BagToSet(writes)
AwaitedBy(ws, c) == {w \in BagToSet(ws) : w.call = c}

\* the writes of a put that was rejected go on, awaited by nobody
Orphaned(ws, c) ==
  LET keys == {[w EXCEPT !.call = 0] : w \in AwaitedBy(ws, c)}
                \cup {w \in BagToSet(ws) : w.call # c}
      Count(w) == IF w \in DOMAIN ws THEN ws[w] ELSE 0
  IN [w \in keys |->
        IF w.call = 0 THEN Count(w) + Count([w EXCEPT !.call = c])
        ELSE Count(w)]

\* another call ran in between: a waiting put is no longer alone
Disturbed(cs) ==
  [c \in DOMAIN cs |->
     IF cs[c].op = "put" THEN [cs[c] EXCEPT !.quiet = FALSE] ELSE cs[c]]

\* the calls after a step of call c (0: of no waiting call)
After(c) == [b \in Slots |-> IF b = c THEN calls[b] ELSE Disturbed(calls)[b]]

(***************************************************************************)
(* Init: the constructor.                                                  *)
(***************************************************************************)
DefaultFileLimit == 100000
DefaultTotalLimit == 500000000
DefaultPathLimit == 100000

\* option || default
OrDefault(option, default) == IF option = 0 THEN default ELSE option

\* new Cache(opts); slots names the calls that may await the store at once
Construct(opts, slots) ==
  /\ fileLimit = OrDefault(opts.fileLimit, DefaultFileLimit)
  /\ totalLimit = OrDefault(opts.totalLimit, DefaultTotalLimit)
  /\ pathLimit = OrDefault(opts.pathLimit, DefaultPathLimit)
  /\ longterm = opts.longterm
  /\ pathIndex = 0
  /\ current = 0
  /\ caches = <<>>
  /\ paths = EmptyMap
  /\ now = 0
  /\ storedPaths = EmptyMap
  /\ storedCaches = EmptyMap
  /\ marker = FALSE
  /\ backend = (IF "backend" \in DOMAIN opts THEN opts.backend ELSE "fs")
  /\ watcher = (IF "clearCheckInterval" \in DOMAIN opts THEN "check" ELSE "off")
  /\ writes = EmptyBag
  /\ calls = [c \in slots |-> Idle]
  /\ last = Nothing

(***************************************************************************)
(* put(data, paths, waitForLongTermIfPutInRAM)                             *)
(***************************************************************************)
\* the check of line 314 against the wrong limit
TooLargeForTotal(d) == (~longterm) /\ Length(d) > totalLimit

\* line 314: no long term store and the payload is over the file limit
TooLarge(d) == (~longterm) /\ Length(d) > fileLimit

\* line 343 without the test of inRAM
ResolvesUnlessWait(wait, inRAM) == ~wait

\* line 343 never taken: every put waits for its durable writes
ResolvesNever(wait, inRAM) == FALSE

\* line 343: in RAM and the caller does not want to wait for the long term
ResolvesAtOnce(wait, inRAM) == (~wait) /\ inRAM

\* line 334: the payload is written to the long term store
WritesCache(cs, hash, d) ==
  IF InCaches(cs, hash) THEN cs[CacheIndex(cs, hash)].data = d ELSE TRUE

HashesOf(cs) == {cs[i].hash : i \in 1..Len(cs)}

\* what a put returned: outcome "ok" resolves with hash, any other rejects;
\* unfinished counts its durable writes still in flight at that moment
PutResult(call, outcome, unfinished) ==
  [op |-> "put", data |-> call.data, paths |-> call.paths, wait |-> call.wait,
   outcome |-> outcome, hash |-> IF outcome = "ok" THEN call.hash ELSE NoHash,
   inRAM |-> call.inRAM, unfinished |-> unfinished, quiet |-> call.quiet,
   wasInRAM |-> call.wasInRAM, evicted |-> call.evicted]

\* put, called while it leaves at most `most' writes in flight
PutWithin(d, pseq, wait, most) ==
  LET hash == Hash(d)
      pp == PutPaths(pseq, paths, pathIndex, pathLimit, hash)
      st == StoreCacheInRAM(caches, current, hash, d, now, fileLimit, totalLimit)
      atOnce == IF st.threw THEN TRUE ELSE ResolvesAtOnce(wait, st.inRAM)
      awaits == longterm /\ ~atOnce
      c == IF awaits THEN FreeSlot ELSE 0
      scheduled ==
        IF longterm
        THEN {PathWrite(c, p, hash) : p \in pp.changed}
               \cup (IF WritesCache(caches, hash, d)
                     THEN {CacheWrite(c, hash, d)} ELSE {})
        ELSE {}
      call == [op |-> "put", data |-> d, paths |-> pseq, wait |-> wait,
               hash |-> hash, inRAM |-> st.inRAM, quiet |-> TRUE,
               wasInRAM |-> InCaches(caches, hash),
               evicted |-> Cardinality(HashesOf(caches) \ HashesOf(st.caches))]
  IN IF TooLarge(d)
     THEN /\ last' = PutResult([call EXCEPT !.inRAM = FALSE, !.evicted = 0],
                               "OversizedPayload", 0)
          /\ UNCHANGED <<limits, ram, now, store, writes, calls>>
     ELSE /\ pp.pathIndex <= MaxPathIndex
          /\ awaits => HasFreeSlot
          /\ BagCardinality(writes) + Cardinality(scheduled) <= most
          /\ paths' = pp.paths
          /\ pathIndex' = pp.pathIndex
          /\ caches' = st.caches
          /\ current' = st.current
          /\ writes' = writes (+) SetToBag(scheduled)
          /\ IF awaits
             THEN /\ calls' = [Disturbed(calls) EXCEPT ![c] = call]
                  /\ last' = Nothing
             ELSE /\ calls' = Disturbed(calls)
                  /\ last' = PutResult(call,
                                       IF st.threw THEN "TypeError" ELSE "ok",
                                       Cardinality(scheduled))
          /\ UNCHANGED <<limits, now, store>>

\* put(data, paths, waitForLongTermIfPutInRAM)
Put(d, pseq, wait) == PutWithin(d, pseq, wait, MaxWrites)

\* a durable write ends; Promise.all resolves the put that awaits it once its
\* last write has ended
WriteDone(w) ==
  LET left == writes (-) SetToBag({w})
      c == w.call
      mine == IF c = 0 THEN {} ELSE AwaitedBy(left, c)
  IN /\ w \in InFlight
     /\ writes' = left
     /\ IF w.op = "writePath"
        THEN /\ storedPaths' = [p \in DOMAIN storedPaths \cup {w.path} |->
                                  IF p = w.path THEN HexToBytes(w.hash)
                                  ELSE storedPaths[p]]
             /\ UNCHANGED <<storedCaches, marker>>
        ELSE /\ storedCaches' = [h \in DOMAIN storedCaches \cup {w.hash} |->
                                   IF h = w.hash THEN w.data ELSE storedCaches[h]]
             /\ UNCHANGED <<storedPaths, marker>>
     /\ IF c # 0 /\ mine = {}
        THEN /\ calls' = [After(c) EXCEPT ![c] = Idle]
             /\ last' = PutResult(calls[c], "ok", Cardinality(mine))
        ELSE /\ calls' = After(c)
             /\ last' = Nothing
     /\ UNCHANGED <<limits, ram, now>>

\* a durable write fails and the rejected put takes back what it did to RAM:
\* its payload and the paths under its hash
WriteFailRollsBack(w) ==
  LET left == writes (-) SetToBag({w})
      c == w.call
      i == CacheIndex(caches, w.hash)
      kept == {p \in DOMAIN paths : paths[p].hash # w.hash}
  IN /\ w \in InFlight
     /\ IF c # 0
        THEN /\ writes' = Orphaned(left, c)
             /\ calls' = [After(c) EXCEPT ![c] = Idle]
             /\ last' = PutResult(calls[c], "DurableWriteFailure",
                                  Cardinality(AwaitedBy(left, c)))
             /\ caches' = IF i = 0 THEN caches ELSE RemoveAt(caches, i)
             /\ current' = IF i = 0 THEN current
                           ELSE current - Length(caches[i].data)
             /\ paths' = [p \in kept |-> paths[p]]
             /\ UNCHANGED pathIndex
        ELSE /\ writes' = left
             /\ calls' = After(c)
             /\ last' = Nothing
             /\ UNCHANGED ram
     /\ UNCHANGED <<limits, now, store>>

\* a durable write fails; Promise.all rejects the put that awaits it
WriteFail(w) ==
  LET left == writes (-) SetToBag({w})
      c == w.call
  IN /\ w \in InFlight
     /\ IF c # 0
        THEN /\ writes' = Orphaned(left, c)
             /\ calls' = [After(c) EXCEPT ![c] = Idle]
             /\ last' = PutResult(calls[c], "DurableWriteFailure",
                                  Cardinality(AwaitedBy(left, c)))
        ELSE /\ writes' = left
             /\ calls' = After(c)
             /\ last' = Nothing
     /\ UNCHANGED <<limits, ram, now, store>>

(***************************************************************************)
(* getByHash(hash) and getByPath(path)                                     *)
(***************************************************************************)
\* what a get returned. entry: the method the caller called; from: where the
\* hash of the path came from ("none" for getByHash); source: where the payload
\* came from, or why the call threw its error:
\*   "ram"            this._caches held the payload
\*   "store"          the long term store held it and it was returned
\*   "admission"      the store held it and _storeCacheInRAM threw
\*   "nothingStored"  the store did not hold what was read
\*   "readFailed"     the store held it and the read failed
\*   "noLongterm"     not in RAM, and there is no long term store
GetResult(entry, path, hash, outcome, value, from, source) ==
  [op |-> entry, path |-> path, hash |-> hash, outcome |-> outcome,
   value |-> value, from |-> from, source |-> source]

\* a hit that leaves the time stamp as it was
Untouched(cs, hash, t) == cs

\* lines 355-357: this._caches[hash][0] = now
Touched(cs, hash, t) == [cs EXCEPT ![CacheIndex(cs, hash)].time = t]

\* getByHash up to its first await, for the caller of entry; c is the slot the
\* call holds already (0: none)
HashLookup(entry, path, hash, from, c) ==
  IF InCaches(caches, hash)
  THEN /\ caches' = Touched(caches, hash, now)
       /\ calls' = [b \in Slots |-> IF b = c THEN Idle ELSE Disturbed(calls)[b]]
       /\ last' = GetResult(entry, path, hash, "ok",
                            caches[CacheIndex(caches, hash)].data, from, "ram")
  ELSE IF longterm
  THEN /\ (c = 0) => HasFreeSlot
       /\ calls' = [Disturbed(calls) EXCEPT ![IF c # 0 THEN c ELSE FreeSlot] =
                      [op |-> "getByHash", entry |-> entry, path |-> path,
                       hash |-> hash, from |-> from]]
       /\ last' = Nothing
       /\ UNCHANGED caches
  ELSE /\ calls' = [b \in Slots |-> IF b = c THEN Idle ELSE Disturbed(calls)[b]]
       /\ last' = GetResult(entry, path, hash, "NotFound", NoData, from,
                            "noLongterm")
       /\ UNCHANGED caches

GetByHash(hash) ==
  /\ HashLookup("getByHash", NoPath, hash, "none", 0)
  /\ UNCHANGED <<limits, pathIndex, current, paths, now, store, writes>>

\* the long term store answers readCache of call c from what it holds
ReadCache(c) ==
  LET call == calls[c]
      found == call.hash \in DOMAIN storedCaches
      data == storedCaches[call.hash]
      st == StoreCacheInRAM(caches, current, call.hash, data, now,
                            fileLimit, totalLimit)
  IN /\ call.op = "getByHash"
     /\ calls' = [Disturbed(calls) EXCEPT ![c] = Idle]
     /\ IF found
        THEN /\ caches' = st.caches
             /\ current' = st.current
             /\ last' = IF st.threw
                        THEN GetResult(call.entry, call.path, call.hash, "NotFound",
                                       NoData, call.from, "admission")
                        ELSE GetResult(call.entry, call.path, call.hash, "ok",
                                       data, call.from, "store")
        ELSE /\ last' = GetResult(call.entry, call.path, call.hash, "NotFound",
                                  NoData, call.from, "nothingStored")
             /\ UNCHANGED <<caches, current>>
     /\ UNCHANGED <<limits, pathIndex, paths, now, store, writes>>

\* readCache of call c fails although the store holds the payload
ReadCacheFail(c) ==
  LET call == calls[c]
  IN /\ call.op = "getByHash"
     /\ call.hash \in DOMAIN storedCaches
     /\ calls' = [Disturbed(calls) EXCEPT ![c] = Idle]
     /\ last' = GetResult(call.entry, call.path, call.hash, "NotFound", NoData,
                          call.from, "readFailed")
     /\ UNCHANGED <<limits, ram, now, store, writes>>

GetByPath(path) ==
  /\ IF path \in DOMAIN paths
     THEN HashLookup("getByPath", path, paths[path].hash, "ram", 0)
     ELSE IF longterm
     THEN /\ HasFreeSlot
          /\ calls' = [Disturbed(calls) EXCEPT ![FreeSlot] =
                         [op |-> "getByPath", path |-> path]]
          /\ last' = Nothing
          /\ UNCHANGED caches
     ELSE /\ calls' = Disturbed(calls)
          /\ last' = GetResult("getByPath", path, NoHash, "NotFound", NoData,
                               "none", "noLongterm")
          /\ UNCHANGED caches
  /\ UNCHANGED <<limits, pathIndex, current, paths, now, store, writes>>

\* the long term store answers readPath of call c from what it holds
ReadPath(c) ==
  LET call == calls[c]
      found == call.path \in DOMAIN storedPaths
      hash == BytesToHex(storedPaths[call.path])
      sp == StorePathInRAM(paths, pathIndex, pathLimit, call.path, hash)
  IN /\ call.op = "getByPath"
     /\ IF found
        THEN /\ sp.pathIndex <= MaxPathIndex
             /\ paths' = sp.paths
             /\ pathIndex' = sp.pathIndex
             /\ HashLookup("getByPath", call.path, hash, "store", c)
        ELSE /\ calls' = [Disturbed(calls) EXCEPT ![c] = Idle]
             /\ last' = GetResult("getByPath", call.path, NoHash, "NotFound",
                                  NoData, "none", "nothingStored")
             /\ UNCHANGED <<pathIndex, paths, caches>>
     /\ UNCHANGED <<limits, current, now, store, writes>>

\* readPath of call c fails although the store holds the path
ReadPathFail(c) ==
  LET call == calls[c]
  IN /\ call.op = "getByPath"
     /\ call.path \in DOMAIN storedPaths
     /\ calls' = [Disturbed(calls) EXCEPT ![c] = Idle]
     /\ last' = GetResult("getByPath", call.path, NoHash, "NotFound", NoData,
                          "none", "readFailed")
     /\ UNCHANGED <<limits, ram, now, store, writes>>

(***************************************************************************)
(* Limits, clear, a fresh instance, the clock.                             *)
(***************************************************************************)
\* set fileLimit(bytes), were it to drop the entries longer than the limit
AssignFileLimitEvicting(bytes) ==
  LET keep == SelectSeq(caches, LAMBDA e : Length(e.data) <= bytes)
  IN /\ fileLimit' = bytes
     /\ caches' = keep
     /\ current' = current - (ResidentBytes(caches) - ResidentBytes(keep))
     /\ calls' = Disturbed(calls)
     /\ UNCHANGED <<totalLimit, pathLimit, longterm, backend, watcher,
                    pathIndex, paths, now, store, writes>>

\* set fileLimit(bytes): what the assignment does to the instance
AssignFileLimit(bytes) ==
  /\ fileLimit' = bytes
  /\ calls' = Disturbed(calls)
  /\ UNCHANGED <<totalLimit, pathLimit, longterm, backend, watcher, ram, now,
                 store, writes>>

\* set fileLimit(bytes)
SetFileLimit(bytes) ==
  /\ AssignFileLimit(bytes)
  /\ last' = Nothing

\* set fileLimit(bytes), the assignment noted as the last operation
NotedSetFileLimit(bytes) ==
  /\ AssignFileLimit(bytes)
  /\ last' = [op |-> "setFileLimit"]

\* set totalLimit(bytes), were it not to free space
AssignTotalLimitOnly(bytes) ==
  /\ totalLimit' = bytes
  /\ calls' = Disturbed(calls)
  /\ UNCHANGED <<fileLimit, pathLimit, longterm, backend, watcher, ram, now,
                 store, writes>>

\* set totalLimit(bytes): what the assignment does to the instance
AssignTotalLimit(bytes) ==
  LET freed == FreeSpaceInRAM(caches, current, 0, now, bytes)
  IN /\ totalLimit' = bytes
     /\ caches' = freed.caches
     /\ current' = freed.current
     /\ calls' = Disturbed(calls)
     /\ UNCHANGED <<fileLimit, pathLimit, longterm, backend, watcher,
                    pathIndex, paths, now, store, writes>>

\* set totalLimit(bytes)
SetTotalLimit(bytes) ==
  /\ AssignTotalLimit(bytes)
  /\ last' = Nothing

\* set totalLimit(bytes), the assignment noted as the last operation
NotedSetTotalLimit(bytes) ==
  /\ AssignTotalLimit(bytes)
  /\ last' = [op |-> "setTotalLimit", evicted |-> Len(caches) - Len(caches')]

\* the startup values, were the insertion counter and the size left as they are
ResetRAMKeepCounters ==
  /\ UNCHANGED <<pathIndex, current>>
  /\ caches' = <<>>
  /\ paths' = EmptyMap

\* the startup values of the constructor, set again by this._longterm.clear
ResetRAM ==
  /\ pathIndex' = 0
  /\ current' = 0
  /\ caches' = <<>>
  /\ paths' = EmptyMap

\* this._longterm.clear: the folder (the bucket) is emptied
Wipe ==
  /\ storedPaths' = EmptyMap
  /\ storedCaches' = EmptyMap
  /\ marker' = FALSE

\* clear()
Clear ==
  /\ ResetRAM
  /\ IF longterm THEN Wipe ELSE UNCHANGED store
  /\ calls' = Disturbed(calls)
  /\ last' = [op |-> "clear"]
  /\ UNCHANGED <<limits, now, writes>>

\* the instance is dropped while no call awaits, and a new one is constructed
\* on the same long term store; the writes in flight go on
Restart(fileLimits, totalLimits) ==
  /\ longterm
  /\ \A c \in Slots : IsIdle(c)
  /\ \E fl \in fileLimits, tl \in totalLimits :
       /\ fileLimit' = OrDefault(fl, DefaultFileLimit)
       /\ totalLimit' = OrDefault(tl, DefaultTotalLimit)
  /\ ResetRAM
  /\ last' = Nothing
  /\ UNCHANGED <<pathLimit, longterm, backend, watcher, now, store, writes,
                 calls>>

(***************************************************************************)
(* deleteByPath(path) and deleteByPathStart(prefix): the path entries are  *)
(* removed from RAM and from the long term store, the payloads stay.       *)
(***************************************************************************)
\* the characters of a path
Chars(path) ==
  CASE path = "a" -> <<"a">>
    [] path = "ab" -> <<"a", "b">>
    [] path = "b" -> <<"b">>

\* path.startsWith(prefix)
StartsWith(path, prefix) ==
  /\ Len(Chars(prefix)) <= Len(Chars(path))
  /\ SubSeq(Chars(path), 1, Len(Chars(prefix))) = Chars(prefix)

\* the map m without the keys gone
Without(m, gone) == [k \in DOMAIN m \ gone |-> m[k]]

\* the path entries of gone are removed from both tiers
DeletePaths(gone) ==
  /\ paths' = Without(paths, gone)
  /\ IF longterm
     THEN /\ storedPaths' = Without(storedPaths, gone)
          /\ UNCHANGED <<storedCaches, marker>>
     ELSE UNCHANGED store
  /\ calls' = Disturbed(calls)
  /\ UNCHANGED <<limits, pathIndex, current, caches, now, writes>>

\* deleteByPath(path), were it to drop the payload of the path as well
DeleteByPathAndContent(path) ==
  LET hash == IF path \in DOMAIN paths THEN paths[path].hash ELSE NoHash
      i == CacheIndex(caches, hash)
  IN /\ paths' = Without(paths, {path})
     /\ IF longterm
        THEN /\ storedPaths' = Without(storedPaths, {path})
             /\ storedCaches' = Without(storedCaches, {hash})
             /\ UNCHANGED marker
        ELSE UNCHANGED store
     /\ caches' = (IF i = 0 THEN caches ELSE RemoveAt(caches, i))
     /\ current' = (IF i = 0 THEN current
                    ELSE current - Length(caches[i].data))
     /\ calls' = Disturbed(calls)
     /\ last' = [op |-> "deleteByPath", path |-> path]
     /\ UNCHANGED <<limits, pathIndex, now, writes>>

\* deleteByPath(path)
DeleteByPath(path) ==
  /\ DeletePaths({path})
  /\ last' = [op |-> "deleteByPath", path |-> path]

\* deleteByPathStart(prefix), were it to leave the long term store as it is
DeleteByPathStartInRAM(prefix) ==
  /\ paths' = Without(paths, {p \in Paths : StartsWith(p, prefix)})
  /\ calls' = Disturbed(calls)
  /\ last' = [op |-> "deleteByPathStart", path |-> prefix]
  /\ UNCHANGED <<limits, pathIndex, current, caches, now, store, writes>>

\* deleteByPathStart(prefix)
DeleteByPathStart(prefix) ==
  /\ DeletePaths({p \in Paths : StartsWith(p, prefix)})
  /\ last' = [op |-> "deleteByPathStart", path |-> prefix]

\* the deletions
Deletes(names) ==
  \/ \E path \in names : DeleteByPath(path)
  \/ \E prefix \in names : DeleteByPathStart(prefix)

(***************************************************************************)
(* The clear checking loop of the constructor:                             *)
(*   while (true) { await this._longterm.clear(true); await sleep(...) }   *)
(***************************************************************************)
\* somebody writes the clear file (object) into the long term store
WriteMarker ==
  /\ longterm
  /\ watcher = "check"
  /\ ~marker
  /\ marker' = TRUE
  /\ UNCHANGED <<limits, ram, now, storedPaths, storedCaches, writes, calls,
                 last>>

\* clear(true) that goes on to clear whether the clear file is there or not
CheckClearUnchecked ==
  /\ watcher = "check"
  /\ watcher' = (IF ~longterm THEN "threw" ELSE "found")
  /\ UNCHANGED <<fileLimit, totalLimit, pathLimit, longterm, backend, ram, now,
                 store, writes, calls, last>>

\* clear(true) has looked for the clear file: without it the loop sleeps and
\* looks again, with it the rest of clear follows; without a long term store
\* this._longterm is false, false.clear is not a function and the TypeError
\* rejects the promise of the loop, which nothing handles
CheckClear ==
  /\ watcher = "check"
  /\ watcher' = (IF ~longterm THEN "threw"
                 ELSE IF marker THEN "found" ELSE "check")
  /\ UNCHANGED <<fileLimit, totalLimit, pathLimit, longterm, backend, ram, now,
                 store, writes, calls, last>>

\* a folder: deltree, mkdir and the startup values, in one go
ClearFolder ==
  /\ watcher = "found"
  /\ backend = "fs"
  /\ Wipe
  /\ ResetRAM
  /\ watcher' = "check"
  /\ calls' = Disturbed(calls)
  /\ last' = [op |-> "watcherClear"]
  /\ UNCHANGED <<fileLimit, totalLimit, pathLimit, longterm, backend, now,
                 writes>>

\* a bucket: await s3buffer.clear()
ClearBucket ==
  /\ watcher = "found"
  /\ backend = "s3"
  /\ Wipe
  /\ watcher' = "wiped"
  /\ UNCHANGED <<fileLimit, totalLimit, pathLimit, longterm, backend, ram, now,
                 writes, calls, last>>

\* a bucket: the startup values, once s3buffer.clear() has resolved
ResetAfterBucket ==
  /\ watcher = "wiped"
  /\ ResetRAM
  /\ watcher' = "check"
  /\ calls' = Disturbed(calls)
  /\ last' = [op |-> "watcherClear"]
  /\ UNCHANGED <<fileLimit, totalLimit, pathLimit, longterm, backend, now,
                 store, writes>>

\* a bucket: s3buffer.exists("clear") rejects; a folder's checkFileExists
\* catches every error and answers false. Nothing catches the rejection in the
\* loop, so the loop ends
CheckClearFail ==
  /\ longterm
  /\ backend = "s3"
  /\ watcher = "check"
  /\ watcher' = "threw"
  /\ UNCHANGED <<fileLimit, totalLimit, pathLimit, longterm, backend, ram, now,
                 store, writes, calls, last>>

\* deltree or mkdirSync throws, or s3buffer.clear() rejects, with the store
\* untouched or already emptied; the startup values are not assigned and the
\* loop ends
WipeFail ==
  /\ watcher = "found"
  /\ watcher' = "threw"
  /\ \/ UNCHANGED store
     \/ Wipe
  /\ UNCHANGED <<fileLimit, totalLimit, pathLimit, longterm, backend, ram, now,
                 writes, calls, last>>

\* the long term store failing the loop
WatcherFails ==
  \/ CheckClearFail
  \/ WipeFail

\* the steps of the loop
Watcher ==
  \/ CheckClear
  \/ ClearFolder
  \/ ClearBucket
  \/ ResetAfterBucket

\* time passes
Tick ==
  /\ now < MaxTime
  /\ now' = now + 1
  /\ UNCHANGED <<limits, ram, store, writes, calls, last>>

(***************************************************************************)
(* The next-state relation, over the inputs the callers choose.            *)
(***************************************************************************)
\* the calls of the public methods
Calls(data, lists, waits, names) ==
  \/ \E d \in data, pseq \in lists, wait \in waits : Put(d, pseq, wait)
  \/ \E d \in data : GetByHash(Hash(d))
  \/ \E path \in names : GetByPath(path)

\* the same calls, the puts leaving at most `most' writes in flight
CallsWithin(data, lists, waits, names, most) ==
  \/ \E d \in data, pseq \in lists, wait \in waits :
       PutWithin(d, pseq, wait, most)
  \/ \E d \in data : GetByHash(Hash(d))
  \/ \E path \in names : GetByPath(path)

\* the setters of the limits
Tuning(fileLimits, totalLimits) ==
  \/ \E bytes \in fileLimits : SetFileLimit(bytes)
  \/ \E bytes \in totalLimits : SetTotalLimit(bytes)

\* the setters of the limits, noted
NotedTuning(fileLimits, totalLimits) ==
  \/ \E bytes \in fileLimits : NotedSetFileLimit(bytes)
  \/ \E bytes \in totalLimits : NotedSetTotalLimit(bytes)

\* the answers of the long term store
Answers ==
  \/ \E w \in InFlight : WriteDone(w)
  \/ \E w \in InFlight : WriteFail(w)
  \/ \E c \in Slots : ReadCache(c)
  \/ \E c \in Slots : ReadCacheFail(c)
  \/ \E c \in Slots : ReadPath(c)
  \/ \E c \in Slots : ReadPathFail(c)

\* every operation, over all the inputs of the model, two calls awaiting
Init ==
  \E opts \in [fileLimit : FileLimits, totalLimit : TotalLimits,
               pathLimit : PathLimits, longterm : BOOLEAN] :
    Construct(opts, {1, 2})

Next ==
  \/ Calls(Data, PathLists, BOOLEAN, Paths)
  \/ Tuning(FileLimits, TotalLimits)
  \/ Answers
  \/ Clear
  \/ Restart(FileLimits, TotalLimits)
  \/ Tick

Spec == Init /\ [][Next]_vars

\* no long term store: three payloads, of which the largest evicts the others
InitRAM ==
  \E opts \in [fileLimit : FileLimits, totalLimit : TotalLimits,
               pathLimit : PathLimits, longterm : {FALSE}] :
    Construct(opts, {})

NextRAM ==
  \/ Calls(Data, {<<>>, <<"a">>}, {FALSE}, {"a"})
  \/ NotedTuning(FileLimits, TotalLimits)
  \/ Clear
  \/ Tick

SpecRAM == InitRAM /\ [][NextRAM]_vars

\* no long term store: the path index under every list of paths
InitPaths ==
  \E opts \in [fileLimit : {12000}, totalLimit : {16000},
               pathLimit : PathLimits, longterm : {FALSE}] :
    Construct(opts, {})

NextPaths ==
  \/ Calls({"d1", "d2"}, PathLists, {FALSE}, Paths)
  \/ Clear

SpecPaths == InitPaths /\ [][NextPaths]_vars

\* a long term store: two payloads under one path, one call awaiting
StoreTotalLimits == {5000, 8000}

InitStore ==
  \E opts \in [fileLimit : FileLimits, totalLimit : StoreTotalLimits,
               pathLimit : PathLimits, longterm : {TRUE}] :
    Construct(opts, {1})

NextStore ==
  \/ Calls({"d1", "d2"}, {<<"a">>}, BOOLEAN, {"a"})
  \/ Tuning(FileLimits, StoreTotalLimits)
  \/ Answers
  \/ Clear
  \/ Restart(FileLimits, StoreTotalLimits)

SpecStore == InitStore /\ [][NextStore]_vars

\* a long term store with the clear checking loop, a folder or a bucket; the
\* callers call while no clear is under way
Watched == /\ ~marker
           /\ watcher = "check"

InitWatch ==
  \E opts \in [fileLimit : {5000}, totalLimit : {8000}, pathLimit : PathLimits,
               longterm : {TRUE}, backend : {"fs", "s3"},
               clearCheckInterval : {1}] :
    Construct(opts, {1})

NextWatch ==
  \/ Watched /\ Calls({"d1", "d2"}, {<<"a">>}, BOOLEAN, {"a"})
  \/ Answers
  \/ WriteMarker
  \/ Watcher

SpecWatch == InitWatch /\ [][NextWatch]_vars

\* the same, the long term store failing the loop at times
NextPoll ==
  \/ NextWatch
  \/ WatcherFails

SpecPoll == InitWatch /\ [][NextPoll]_vars

\* a long term store of which every write and every read succeeds, and two
\* calls that may await it at once
InitReads ==
  \E opts \in [fileLimit : FileLimits, totalLimit : StoreTotalLimits,
               pathLimit : PathLimits, longterm : {TRUE}] :
    Construct(opts, {1, 2})

NextReads ==
  \/ Calls({"d1", "d2"}, {<<"a">>}, {FALSE}, {"a"})
  \/ \E w \in InFlight : WriteDone(w)
  \/ \E c \in Slots : ReadCache(c)
  \/ \E c \in Slots : ReadPath(c)

SpecReads == InitReads /\ [][NextReads]_vars

\* clearCheckInterval given without a long term store
InitLoop ==
  \E opts \in [fileLimit : {5000}, totalLimit : {8000}, pathLimit : PathLimits,
               longterm : {FALSE}, clearCheckInterval : {1}] :
    Construct(opts, {})

NextLoop ==
  \/ Calls({"d1", "d2"}, PathLists, {FALSE}, Paths)
  \/ CheckClear

SpecLoop == InitLoop /\ [][NextLoop]_vars

\* a long term store of which every write and every read succeeds, while time
\* passes: two payloads that both fit in RAM
InitTouch ==
  \E opts \in [fileLimit : {12000}, totalLimit : {16000}, pathLimit : PathLimits,
               longterm : {TRUE}] :
    Construct(opts, {1})

NextTouch ==
  \/ Calls({"d1", "d2"}, {<<"a">>}, {FALSE}, {"a"})
  \/ \E w \in InFlight : WriteDone(w)
  \/ \E c \in Slots : ReadCache(c)
  \/ \E c \in Slots : ReadPath(c)
  \/ Tick

SpecTouch == InitTouch /\ [][NextTouch]_vars

\* a long term store of which every write and every read succeeds: two
\* payloads put under one path
InitSync ==
  \E opts \in [fileLimit : {5000}, totalLimit : {8000}, pathLimit : PathLimits,
               longterm : {TRUE}] :
    Construct(opts, {1})

NextSync ==
  \/ CallsWithin({"d1", "d2"}, {<<"a">>}, BOOLEAN, {"a"}, MaxRacingWrites)
  \/ \E w \in InFlight : WriteDone(w)
  \/ \E c \in Slots : ReadCache(c)
  \/ \E c \in Slots : ReadPath(c)

SpecSync == InitSync /\ [][NextSync]_vars

\* paths put and deleted, with and without a long term store (of which every
\* write and every read succeeds)
InitDelete ==
  \E opts \in [fileLimit : {5000}, totalLimit : {8000}, pathLimit : PathLimits,
               longterm : BOOLEAN] :
    Construct(opts, {1})

NextDelete ==
  \/ Calls({"d1", "d2"}, {<<"a">>, <<"ab">>, <<"b">>}, {TRUE}, Paths)
  \/ \E w \in InFlight : WriteDone(w)
  \/ \E c \in Slots : ReadCache(c)
  \/ \E c \in Slots : ReadPath(c)
  \/ Deletes(Paths)

SpecDelete == InitDelete /\ [][NextDelete]_vars

\* new Cache({fileLimit: 0, totalLimit: 0, pathLimit: 0}): no long term store,
\* payloads of any length
InitUnlimited ==
  Construct([fileLimit |-> 0, totalLimit |-> 0, pathLimit |-> 0,
             longterm |-> FALSE], {})

NextUnlimited ==
  Calls(AnyData, {<<>>, <<"a">>, <<"a", "b">>}, {FALSE}, {"a", "b"})

SpecUnlimited == InitUnlimited /\ [][NextUnlimited]_vars

(***************************************************************************)
(* What a get returns in a given state, the long term store answering      *)
(* every read from what it holds (NoData: the call throws its error).      *)
(***************************************************************************)
\* getByHash(hash) on an instance whose RAM holds cs, cur
WouldGetByHash(cs, cur, hash) ==
  IF InCaches(cs, hash) THEN cs[CacheIndex(cs, hash)].data
  ELSE IF longterm /\ hash \in DOMAIN storedCaches
  THEN IF StoreCacheInRAM(cs, cur, hash, storedCaches[hash], now,
                          fileLimit, totalLimit).threw
       THEN NoData
       ELSE storedCaches[hash]
  ELSE NoData

\* getByPath(path) on an instance whose RAM holds ps, cs, cur
WouldGetByPath(ps, cs, cur, path) ==
  IF path \in DOMAIN ps THEN WouldGetByHash(cs, cur, ps[path].hash)
  ELSE IF longterm /\ path \in DOMAIN storedPaths
  THEN WouldGetByHash(cs, cur, BytesToHex(storedPaths[path]))
  ELSE NoData

\* on this instance
WarmGetByPath(path) == WouldGetByPath(paths, caches, current, path)

\* on a fresh instance built on the same long term store
ColdGetByHash(hash) == WouldGetByHash(<<>>, 0, hash)
ColdGetByPath(path) == WouldGetByPath(EmptyMap, <<>>, 0, path)

IsPut(r) == r.op = "put"
IsGet(r) == r.op \in {"getByHash", "getByPath"}
Resolved(r) == IsPut(r) /\ r.outcome = "ok"
PathsOf(r) == {r.paths[i] : i \in 1..Len(r.paths)}

(***************************************************************************)
(* The claims.                                                             *)
(***************************************************************************)

\* C1: after every completed operation (put, getByHash, getByPath, a limit
\* assignment, clear) the resident size is at most totalLimit.
C1_SizeWithinTotalLimit ==
  /\ current <= totalLimit
  /\ current = ResidentBytes(caches)

\* C1 witness: a put was admitted after entries were evicted for it.
C1_PutEvicted ==
  /\ Resolved(last)
  /\ last.evicted > 0
  /\ InCaches(caches, last.hash)

\* C2: the index never holds more than pathLimit paths, and storing a new path
\* evicts at most one entry, which has the smallest insertion index of the
\* entries resident at that moment.
C2_WindowEvictsOldest ==
  /\ Cardinality(DOMAIN paths) <= pathLimit
  /\ \A p \in Paths \ DOMAIN paths : \A h \in Hashes :
       LET sp == StorePathInRAM(paths, pathIndex, pathLimit, p, h)
           before == DOMAIN paths \cup {p}
           IndexOf(q) == IF q = p THEN pathIndex ELSE paths[q].index
           gone == before \ DOMAIN sp.paths
       IN /\ Cardinality(gone) <= 1
          /\ \A q \in gone : \A r \in before : IndexOf(q) <= IndexOf(r)

\* C2 witness: the window has moved: entries were evicted and the index is full.
C2_WindowMoved ==
  /\ pathIndex > pathLimit
  /\ Cardinality(DOMAIN paths) = pathLimit
  /\ \A q \in DOMAIN paths : paths[q].index >= pathIndex - pathLimit

\* C3: a put that resolves returns the hash of its payload whatever the state,
\* and a put of a payload that is resident leaves the resident size unchanged.
C3_SizeCountedOnce ==
  [][ /\ Resolved(last') => last'.hash = Hash(last'.data)
      /\ (IsPut(last') /\ InCaches(caches, Hash(last'.data)))
           => current' = current ]_vars

\* C3 witness: a resident payload was put again, and the size is its length.
C3_PutAgain ==
  /\ Resolved(last)
  /\ last.wasInRAM
  /\ Len(caches) = 1
  /\ current = Length(last.data)

\* C4: with no long term store, a put of a payload longer than fileLimit fails
\* with OversizedPayload and leaves the path index, the insertion counter, the
\* caches and the resident size as they were, also when paths were given.
C4_OversizedStoresNothing ==
  [][ (IsPut(last') /\ (~longterm) /\ Length(last'.data) > fileLimit)
        => /\ last'.outcome = "OversizedPayload"
           /\ UNCHANGED <<pathIndex, current, caches, paths>> ]_vars

\* C4 witness: a put with a path was rejected while the cache held entries.
C4_RejectedWithPath ==
  /\ IsPut(last)
  /\ last.outcome = "OversizedPayload"
  /\ last.paths # <<>>
  /\ caches # <<>>
  /\ PathsOf(last) \cap DOMAIN paths = {}

\* C5 as claimed: right after a put of at most pathLimit paths resolves,
\* getByPath returns its payload for every path of the call.
C5_EveryPathResolves ==
  (Resolved(last) /\ Len(last.paths) <= pathLimit)
    => \A p \in PathsOf(last) : WarmGetByPath(p) = last.data

\* C5 amended: right after a put of at most pathLimit paths resolves,
\* getByPath returns its payload for every path of the call that was not in the
\* index before the call.
C5_NewPathsResolve ==
  [][ (Resolved(last') /\ Len(last'.paths) <= pathLimit)
        => \A p \in PathsOf(last') \ DOMAIN paths :
             WarmGetByPath(p)' = last'.data ]_vars

\* C5 witness: a put of two new paths resolved with the index full before it.
C5_TwoNewPaths ==
  /\ Resolved(last)
  /\ Len(last.paths) = 2
  /\ pathIndex > pathLimit
  /\ \A p \in PathsOf(last) :
       p \in DOMAIN paths /\ paths[p].index >= pathIndex - 2

\* C6: a put that is in RAM and was not asked to wait resolves without awaiting
\* any durable write; every other put resolves only when none of the durable
\* writes it scheduled is still in flight.
C6_ResolvesAfterWrites ==
  /\ (Resolved(last) /\ (last.wait \/ ~last.inRAM)) => last.unfinished = 0
  /\ \A c \in Slots :
       IsPut(calls[c]) => (calls[c].wait \/ ~calls[c].inRAM)

\* C6 witness: a put that was not asked to wait, of a payload that did not go
\* to RAM, resolved after its writes reached the store.
C6_WaitedForWrites ==
  /\ Resolved(last)
  /\ ~last.wait
  /\ ~last.inRAM
  /\ last.quiet
  /\ last.hash \in DOMAIN storedCaches
  /\ PathsOf(last) \subseteq DOMAIN storedPaths

\* C7 as claimed: a put that was not asked to wait never fails with a durable
\* write failure.
C7_NeverWriteFailure ==
  (IsPut(last) /\ ~last.wait) => last.outcome # "DurableWriteFailure"

\* C7 amended: a put that was not asked to wait and whose payload was admitted
\* to RAM never fails with a durable write failure: it resolves with the hash
\* whatever becomes of its writes.
C7_AdmittedNeverFails ==
  /\ (IsPut(last) /\ (~last.wait) /\ last.inRAM)
       => (last.outcome = "ok" /\ last.hash = Hash(last.data))
  /\ \A c \in Slots :
       IsPut(calls[c]) => (calls[c].wait \/ ~calls[c].inRAM)

\* C7 witness: such a put resolved with its writes still in flight.
C7_ResolvedBeforeWrites ==
  /\ Resolved(last)
  /\ ~last.wait
  /\ last.inRAM
  /\ last.unfinished > 0
  /\ BagCardinality(writes) >= last.unfinished

\* C8: once a put that waits for the long term store has resolved (no other
\* call in between, no write left in flight), a fresh instance on the same
\* store returns the payload from getByPath of its paths and from getByHash of
\* its hash, whether the payload is longer than fileLimit or not.
C8_FreshInstanceReads ==
  (Resolved(last) /\ last.wait /\ last.quiet /\ writes = EmptyBag)
    => /\ ColdGetByHash(last.hash) = last.data
       /\ \A p \in PathsOf(last) : ColdGetByPath(p) = last.data

\* C9: a get that misses RAM and whose read finds the payload in the long
\* term store returns it, and then the payload is resident and the path is in
\* the index, under every fileLimit and totalLimit.
C9_ReadThroughRepopulates ==
  (IsGet(last) /\ last.source \in {"store", "admission"})
    => /\ last.outcome = "ok"
       /\ Hash(last.value) = last.hash
       /\ InCaches(caches, last.hash)
       /\ (last.op = "getByPath" => last.path \in DOMAIN paths)

\* C10: a get fails, and then with NotFound, exactly when RAM does not hold
\* what is asked for and there is no long term store, or its read fails or
\* finds nothing.
C10_NotFoundOnlyWhenAbsent ==
  IsGet(last)
    => /\ last.outcome \in {"ok", "NotFound"}
       /\ (last.outcome = "NotFound")
            <=> (last.source \in {"noLongterm", "nothingStored", "readFailed"})

\* C11: when an assignment of totalLimit returns, the resident size is at most
\* the new limit, and nothing was evicted if the size was already within it.
C11_AssignmentEvictsAtOnce ==
  [][ \A bytes \in TotalLimits :
        NotedSetTotalLimit(bytes)
          => /\ current' <= bytes
             /\ current' = ResidentBytes(caches')
             /\ (current <= bytes) => (caches' = caches /\ current' = current)
    ]_vars

\* C11 witness: an assignment of totalLimit evicted and left entries resident.
C11_LoweredAndEvicted ==
  /\ last.op = "setTotalLimit"
  /\ last.evicted > 0
  /\ caches # <<>>
  /\ current <= totalLimit

\* C12: an assignment of fileLimit changes only the limit: the caches, their
\* time stamps, the resident size, the path index and the other limits stay,
\* also when resident entries are longer than the new limit.
C12_FileLimitOnly ==
  [][ \A bytes \in FileLimits :
        NotedSetFileLimit(bytes)
          => /\ fileLimit' = bytes
             /\ UNCHANGED <<pathIndex, current, caches, paths>>
             /\ UNCHANGED <<totalLimit, pathLimit, longterm>>
    ]_vars

\* C12 witness: fileLimit was assigned below the length of a resident entry.
C12_ResidentOverLimit ==
  /\ last.op = "setFileLimit"
  /\ \E i \in 1..Len(caches) : Length(caches[i].data) > fileLimit
  /\ DOMAIN paths # {}

\* C13: when clear() has completed, the resident size is 0, the caches and the
\* path index are empty, the insertion counter is 0, the long term store (if
\* there is one) holds nothing, and getByHash and getByPath fail for every
\* hash and every path.
C13_ClearResetsAll ==
  (last.op = "clear")
    => /\ current = 0
       /\ caches = <<>>
       /\ paths = EmptyMap
       /\ pathIndex = 0
       /\ longterm => (storedPaths = EmptyMap /\ storedCaches = EmptyMap)
       /\ \A h \in Hashes : WouldGetByHash(caches, current, h) = NoData
       /\ \A p \in Paths : WarmGetByPath(p) = NoData

\* C13 witness: clear() completed with a long term store, while a write
\* scheduled by an earlier put was still in flight.
C13_ClearedWithStore ==
  /\ last.op = "clear"
  /\ longterm
  /\ BagCardinality(writes) > 0

\* the instance holds nothing and has counted no path: nothing was put since
\* the instance was constructed or cleared
NothingPutYet ==
  /\ pathIndex = 0
  /\ current = 0
  /\ caches = <<>>
  /\ paths = EmptyMap

\* no call awaits and no write is in flight
NothingInFlight ==
  /\ writes = EmptyBag
  /\ \A c \in Slots : IsIdle(c)

\* C14: when the clear checking loop has found the clear file and performed
\* its clear, the RAM state is emptied, the long term store holds no path and
\* no payload, and getByPath and getByHash fail for everything stored before.
C14_WatcherClearsAll ==
  (last.op = "watcherClear")
    => /\ NothingPutYet
       /\ storedPaths = EmptyMap
       /\ storedCaches = EmptyMap
       /\ \A p \in Paths : WarmGetByPath(p) = NoData
       /\ \A h \in Hashes : WouldGetByHash(caches, current, h) = NoData

\* C15: the clear of the clear checking loop never takes effect while a put or
\* a get awaits or a write a put scheduled is in flight; so once a clear is
\* done and nothing is in flight any more, nothing put before the clear can be
\* retrieved.
C15_ClearNeverMidOperation ==
  [][ /\ (watcher = "found" /\ watcher' # "found") => NothingInFlight
      /\ (NothingPutYet /\ NothingInFlight /\ watcher = "check")'
           => (/\ \A p \in Paths : ColdGetByPath(p) = NoData
               /\ \A h \in Hashes : ColdGetByHash(h) = NoData)'
    ]_vars

\* C16: after any puts to a path, once every write they scheduled has completed
\* (none failed), the long term store holds for the path the hash that the
\* path index in RAM holds for it.
C16_TiersAgreeOnPaths ==
  NothingInFlight
    => \A p \in DOMAIN paths :
         /\ p \in DOMAIN storedPaths
         /\ BytesToHex(storedPaths[p]) = paths[p].hash

\* C17: deleteByPathStart(prefix) removes from RAM and from the long term
\* store exactly the path entries whose path starts with prefix: getByPath
\* then fails for each of them, and every other path resolves as before.
C17_PrefixDeletesExactly ==
  [][ \A prefix \in Paths :
        DeleteByPathStart(prefix)
          => \A p \in Paths :
               IF StartsWith(p, prefix)
               THEN /\ p \notin DOMAIN paths'
                    /\ p \notin DOMAIN storedPaths'
                    /\ WarmGetByPath(p)' = NoData
               ELSE /\ (p \in DOMAIN paths') <=> (p \in DOMAIN paths)
                    /\ (p \in DOMAIN storedPaths') <=> (p \in DOMAIN storedPaths)
                    /\ WarmGetByPath(p)' = WarmGetByPath(p)
    ]_vars

\* C17 witness: the prefix "a" was deleted with a long term store; the path
\* "b" is left in both tiers and resolves.
C17_PrefixDeleted ==
  /\ last.op = "deleteByPathStart"
  /\ last.path = "a"
  /\ longterm
  /\ DOMAIN paths = {"b"}
  /\ DOMAIN storedPaths = {"b"}
  /\ pathIndex >= 2
  /\ WarmGetByPath("b") # NoData

\* C18: deleteByPath(path) removes only the path entry of path, from RAM and
\* from the long term store, and no payload: getByPath(path) then fails, the
\* other paths and getByHash return what they returned, the resident size is
\* unchanged.
C18_DeletesOnlyThePath ==
  [][ \A path \in Paths :
        DeleteByPath(path)
          => /\ WarmGetByPath(path)' = NoData
             /\ \A q \in Paths \ {path} : WarmGetByPath(q)' = WarmGetByPath(q)
             /\ \A h \in Hashes :
                  WouldGetByHash(caches, current, h)'
                    = WouldGetByHash(caches, current, h)
             /\ UNCHANGED <<current, caches, storedCaches, pathIndex>>
    ]_vars

\* C18 witness: "a" was deleted while "ab" leads to the same payload, which is
\* resident; "ab" still resolves to it.
C18_OtherPathSameHash ==
  /\ last.op = "deleteByPath"
  /\ last.path = "a"
  /\ "a" \notin DOMAIN paths
  /\ "ab" \in DOMAIN paths
  /\ WarmGetByPath("ab") = "d1"
  /\ current = Length("d1")

C20_ZeroMeansUnlimited ==
  [][ IsPut(last') =>
        /\ last'.outcome = "ok"
        /\ last'.evicted = 0
        /\ DOMAIN paths \subseteq DOMAIN paths'
        /\ InCaches(caches', Hash(last'.data))
        /\ ~last'.wasInRAM => current' = current + Length(last'.data) ]_vars

\* C21: an instance constructed with clearCheckInterval and without a long term
\* store has no clear checking loop: none was started and none has thrown.
C21_NoLoopWithoutStore ==
  (~longterm) => watcher = "off"

\* the score of entry e in an eviction pass at time t
ScoreOf(e, t) == ScoreFunc(t - e.time, Length(e.data))

\* C22: in every step that removes entries from RAM and keeps others, each
\* removed entry's score at that time is at least the score of every entry
\* kept; when both are no longer than ScoreStep bytes, the removed one was
\* put or read no later than the kept one.
C22_EvictsLargestScore ==
  [][ \A i, j \in 1..Len(caches) :
        ( /\ ~InCaches(caches', caches[i].hash)
          /\ InCaches(caches', caches[j].hash) )
          => /\ ScoreOf(caches[i], now) >= ScoreOf(caches[j], now)
             /\ ( /\ Length(caches[i].data) <= ScoreStep
                  /\ Length(caches[j].data) <= ScoreStep )
                  => caches[i].time <= caches[j].time ]_vars

\* C22 witness: a put evicted one of two entries of different age and kept the
\* other, which is older than the payload just stored.
C22_OneEvictedOneKept ==
  /\ IsPut(last)
  /\ last.outcome = "ok"
  /\ last.evicted = 1
  /\ Len(caches) = 2
  /\ caches[1].time < caches[2].time
  /\ caches[1].time > 0

\* C23: in every state, _storeCacheInRAM of a payload that is not resident and
\* no longer than fileLimit returns normally with true, has the payload
\* resident with the current time stamp, and leaves the resident size at the
\* size after the eviction pass plus the length of the payload.
C23_AdmissionTerminates ==
  \A d \in Data :
    (~InCaches(caches, Hash(d)) /\ Length(d) <= fileLimit)
      => LET st == StoreCacheInRAM(caches, current, Hash(d), d, now,
                                   fileLimit, totalLimit)
             freed == FreeSpaceInRAM(caches, current, Length(d), now,
                                     totalLimit)
         IN /\ ~st.threw
            /\ st.inRAM
            /\ InCaches(st.caches, Hash(d))
            /\ st.caches[CacheIndex(st.caches, Hash(d))].time = now
            /\ st.current = freed.current + Length(d)

\* C24: with a long term store, a put of a payload that is not resident and
\* longer than fileLimit leaves the entries in RAM and the resident size as they
\* were and awaits its durable write of the payload; a readCache that finds such
\* a payload returns it and leaves RAM as it was; and when such a put has
\* resolved, no other call in between, a fresh instance on the same store
\* returns the payload from getByHash.
C24_OversizeStaysOutOfRAM ==
  [][ /\ \A d \in {"d1", "d2"}, pseq \in {<<"a">>}, wait \in BOOLEAN :
           ( /\ longterm
             /\ Length(d) > fileLimit
             /\ ~InCaches(caches, Hash(d))
             /\ Put(d, pseq, wait) )
             => /\ caches' = caches
                /\ current' = current
                /\ \E c \in Slots :
                     /\ IsPut(calls'[c])
                     /\ calls'[c].data = d
                     /\ ~calls'[c].inRAM
                     /\ calls'[c].evicted = 0
                     /\ CacheWrite(c, Hash(d), d) \in BagToSet(writes')
      /\ \A c \in Slots :
           ( /\ calls[c].op = "getByHash"
             /\ calls[c].hash \in DOMAIN storedCaches
             /\ Length(storedCaches[calls[c].hash]) > fileLimit
             /\ ReadCache(c) )
             => /\ caches' = caches
                /\ current' = current
                /\ last'.outcome = "ok"
                /\ last'.value = storedCaches[calls[c].hash]
      /\ \A d \in Data :
           ( /\ Resolved(last')
             /\ last'.data = d
             /\ last'.quiet
             /\ ~last'.inRAM
             /\ Length(d) > fileLimit' )
             => /\ ~InCaches(caches', Hash(d))
                /\ ColdGetByHash(Hash(d))' = d ]_vars

\* C24 witness: a put of a payload longer than fileLimit has resolved while a
\* smaller payload stayed resident, and the store holds the large one.
C24_OversizeStored ==
  /\ Resolved(last)
  /\ last.quiet
  /\ ~last.inRAM
  /\ Length(last.data) > fileLimit
  /\ ~InCaches(caches, last.hash)
  /\ caches # <<>>
  /\ last.hash \in DOMAIN storedCaches

\* C25: with a long term store, a put of a payload that is resident under its
\* hash schedules no durable write of the payload: after the call no writeCache
\* is in flight that was not in flight before it.
C25_NoPayloadWriteWhenResident ==
  [][ \A d \in {"d1", "d2"}, pseq \in {<<"a">>}, wait \in BOOLEAN :
        ( /\ longterm
          /\ InCaches(caches, Hash(d))
          /\ Put(d, pseq, wait) )
          => \A w \in BagToSet(writes') :
               w.op = "writeCache" => CopiesIn(w, writes') = CopiesIn(w, writes)
    ]_vars

\* C26: a getByHash of a resident hash returns the resident payload and sets
\* the time stamp of that entry to the current time, which is then the latest
\* of all; the other entries, the resident size, the path index, the long term
\* store and the writes in flight are unchanged and no call awaits a durable
\* read that did not await one before.
C26_HitTouchesOnly ==
  [][ \A d \in {"d1", "d2"} :
        (InCaches(caches, Hash(d)) /\ GetByHash(Hash(d)))
          => LET i == CacheIndex(caches, Hash(d))
             IN /\ last'.outcome = "ok"
                /\ last'.value = d
                /\ last'.source = "ram"
                /\ caches' = [caches EXCEPT ![i].time = now]
                /\ \A j \in 1..Len(caches') :
                     caches'[j].time <= caches'[i].time
                /\ UNCHANGED <<current, paths, pathIndex, store, writes>>
                /\ \A c \in Slots : IsGet(calls'[c]) => calls'[c] = calls[c]
    ]_vars

\* C26 witness: the older of two resident entries was read from RAM and now
\* has the latest time stamp, with the long term store holding both.
C26_OlderEntryRead ==
  /\ IsGet(last)
  /\ last.op = "getByHash"
  /\ last.source = "ram"
  /\ Len(caches) = 2
  /\ caches[1].hash = last.hash
  /\ caches[1].time = now
  /\ caches[2].time < now
  /\ DOMAIN storedCaches = {caches[1].hash, caches[2].hash}

\* C27: a pass of the clear checking loop that finds no clear file in the long
\* term store leaves the loop where it was, about to look again, and leaves the
\* entries and paths in RAM, the insertion counter, the resident size and the
\* long term store unchanged.
C27_NoMarkerNoChange ==
  [][ (longterm /\ watcher = "check" /\ ~marker /\ Watcher)
        => /\ watcher' = "check"
           /\ UNCHANGED <<caches, paths, pathIndex, current>>
           /\ UNCHANGED <<storedPaths, storedCaches, marker>> ]_vars

\* C27 witness: the loop is about to look, there is no clear file, and RAM and
\* the long term store hold a payload and a path that a clear would remove.
C27_LooksAtFullStore ==
  /\ longterm
  /\ watcher = "check"
  /\ ~marker
  /\ caches # <<>>
  /\ DOMAIN paths # {}
  /\ DOMAIN storedCaches # {}
  /\ DOMAIN storedPaths # {}
  /\ ENABLED CheckClear

\* C28: with a long term store, a clear checking loop that was started is never
\* over: in every state it is about to look for the clear file or is clearing.
C28_LoopNeverEnds ==
  (longterm /\ watcher # "off") => watcher \in {"check", "found", "wiped"}

\* C29: in every reachable state the resident size this._current is the sum of
\* the lengths of the payloads held in RAM.
C29_SizeIsSumOfEntries ==
  current = ResidentBytes(caches)

\* C29 witness: a payload read back from the long term store is the only one
\* resident, the other stored payload having left RAM, and the size is its
\* length.
C29_ReadBackAlone ==
  /\ IsGet(last)
  /\ last.source = "store"
  /\ Len(caches) = 1
  /\ caches[1].hash = last.hash
  /\ Cardinality(DOMAIN storedCaches) = 2
  /\ current = Length(last.value)
  /\ current > 0

\* another call awaits readCache of the hash that call c awaits
Racing(c) ==
  \E b \in Slots \ {c} :
    calls[b].op = "getByHash" /\ calls[b].hash = calls[c].hash

\* C30: when readCache answers one of several calls that await the same hash,
\* the store holding a payload no longer than fileLimit, the call returns the
\* payload, RAM then holds exactly one entry of that hash, and the resident
\* size is the sum of the entries and did not grow if the entry was there.
C30_RacingReadsAdmitOnce ==
  [][ \A c \in Slots :
        ( /\ calls[c].op = "getByHash"
          /\ Racing(c)
          /\ calls[c].hash \in DOMAIN storedCaches
          /\ Length(storedCaches[calls[c].hash]) <= fileLimit
          /\ ReadCache(c) )
          => /\ last'.outcome = "ok"
             /\ last'.value = storedCaches[calls[c].hash]
             /\ Cardinality({i \in 1..Len(caches') :
                               caches'[i].hash = calls[c].hash}) = 1
             /\ current' = ResidentBytes(caches')
             /\ InCaches(caches, calls[c].hash) => current' = current ]_vars

\* C31: when a put has been rejected because one of its durable writes failed,
\* no other call in between, its paths are in the index under its hash and, if
\* the payload was admitted to RAM, the payload is resident and getByHash and
\* getByPath of its paths return it on the same instance.
C31_RejectedPutKeepsRAM ==
  (IsPut(last) /\ last.outcome = "DurableWriteFailure" /\ last.quiet)
    => /\ \A p \in PathsOf(last) :
            p \in DOMAIN paths /\ paths[p].hash = Hash(last.data)
       /\ last.inRAM
            => /\ InCaches(caches, Hash(last.data))
               /\ WouldGetByHash(caches, current, Hash(last.data)) = last.data
               /\ \A p \in PathsOf(last) : WarmGetByPath(p) = last.data

\* C31 witness: a put that waited for the long term store was rejected by a
\* failed write; its payload, new to RAM, is resident and the store lacks it.
C31_RejectedAndResident ==
  /\ IsPut(last)
  /\ last.outcome = "DurableWriteFailure"
  /\ last.quiet
  /\ last.wait
  /\ last.inRAM
  /\ ~last.wasInRAM
  /\ InCaches(caches, Hash(last.data))
  /\ Hash(last.data) \notin DOMAIN storedCaches

\* the sizes _freeSpaceInRAM is called with: 0 by the setter of totalLimit, the
\* length of the payload by _storeCacheInRAM
PassSizes == {0} \cup {Length(d) : d \in Data}

\* C32: in every state, an eviction pass for any incoming size under any total
\* limit removes nothing when the resident size plus the incoming size fits;
\* otherwise the entry it removes last, the one of the lowest score among the
\* removed, was needed: with it still resident the size would not fit.
C32_EvictionIsMinimal ==
  \A size \in PassSizes, tl \in TotalLimits :
    LET freed == FreeSpaceInRAM(caches, current, size, now, tl)
        sorted == SortedScores(caches, now)
        gone == {k \in 1..Len(sorted) : ~InCaches(freed.caches, sorted[k].hash)}
    IN /\ current + size <= tl => (freed.caches = caches /\ ~freed.threw)
       /\ gone # {}
            => LET k == CHOOSE k \in gone : \A j \in gone : k <= j
                   e == caches[CacheIndex(caches, sorted[k].hash)]
               IN freed.current + Length(e.data) + size > tl
       /\ ~freed.threw => freed.current + size <= tl

\* C32 witness: an assignment of totalLimit evicted one entry and kept another,
\* beside which some payload that is not resident would not fit.
C32_OneWasEnough ==
  /\ last.op = "setTotalLimit"
  /\ last.evicted = 1
  /\ Len(caches) = 1
  /\ current <= totalLimit
  /\ \E d \in Data : ~InCaches(caches, Hash(d))
                        /\ current + Length(d) > totalLimit

====
